---- MODULE Spec2Model ----
(***************************************************************************)
(* A model of examples/dcrlme.ipynb: the dependency bootstrap cell, the    *)
(* per-step interaction closure play_step_fn with the reward wrappers it   *)
(* runs under, and the main training loop with its CSV logging.            *)
(*                                                                         *)
(* Two specifications:                                                     *)
(*   Spec      a run of the notebook: the bootstrap cell, then the main    *)
(*             loop cell, for every choice of num_iterations, log_period.  *)
(*   SpecPlay  play_step_fn applied to every environment state, policy     *)
(*             parameters and reward offset of the bounded input sets.     *)
(***************************************************************************)
EXTENDS Integers, Sequences, FiniteSets, TLC

VARIABLES
    pc,              \* position of the notebook run
    available,       \* whether `import qdax` can succeed in the kernel's environment
    imported,        \* whether the name qdax is bound in the kernel
    first_import,    \* outcome of the import of line 37: "none" | "ok" | "failed"
    second_import,   \* outcome of the import of line 41: "none" | "ok" | "failed"
    installs,        \* number of `pip install` runs
    output,          \* the cell's displayed output
    error,           \* the exception that ended the run, or "none"
    num_iterations,  \* form field of line 105
    log_period,      \* line 381
    num_loops,       \* line 382
    i,               \* the for loop's index
    repertoire, emitter_state, random_key,   \* the notebook's globals
    carry,           \* the carry of the running jax.lax.scan
    ys,              \* the outputs the running scan has stacked so far
    metrics,         \* the stacked metrics the last scan returned
    all_metrics,     \* line 388
    csv_rows,        \* the rows csv_logger.log received, in order
    updates,         \* history: every map_elites.update application, in order
    play_pc,         \* "idle" | "ready" | "stepped"
    env_state,       \* argument of play_step_fn
    policy_params,   \* argument of play_step_fn
    offset,          \* environments.reward_offset[env_name]
    raw_reward,      \* reward of the unwrapped environment's step
    next_state,      \* state returned by play_step_fn
    transition       \* DCRLTransition returned by play_step_fn

bootVars == <<pc, available, imported, first_import, second_import, installs,
              output, error>>
loopVars == <<num_iterations, log_period, num_loops, i, repertoire,
              emitter_state, random_key, carry, ys, metrics, all_metrics,
              csv_rows, updates>>
playVars == <<play_pc, env_state, policy_params, offset, raw_reward,
              next_state, transition>>
vars == <<bootVars, loopVars, playVars>>

(***************************************************************************)
(* Bounds of the model.                                                    *)
(***************************************************************************)
MaxIterations == 4
MaxLogPeriod == 3
MaxRepertoire == 1
MaxTimelapse == 1
MaxRawReward == 2
MaxOffset == 1
\* the environment's declared dimensions, scaled down
observation_size == 2
action_size == 1
behavior_descriptor_length == 2
state_descriptor_length == 1

Max(a, b) == IF a >= b THEN a ELSE b

(***************************************************************************)
(* Cell 2: the import-and-install fallback.                                *)
(***************************************************************************)
\* try: import qdax
TryImport ==
    /\ pc = "cell2_try"
    /\ IF available
       THEN /\ imported' = TRUE
            /\ first_import' = "ok"
            /\ pc' = "cell2_clear"
       ELSE /\ imported' = imported
            /\ first_import' = "failed"
            /\ pc' = "cell2_except"
    /\ UNCHANGED <<available, second_import, installs, output, error>>
    /\ UNCHANGED <<loopVars, playVars>>

\* The except block without its last line: the install is not followed by an import.
ExceptInstallNoReimport ==
    /\ pc = "cell2_except"
    /\ output' = Append(output, "QDax not found. Installing...")
    /\ installs' = installs + 1
    /\ available' \in BOOLEAN
    /\ pc' = "cell2_clear"
    /\ UNCHANGED <<imported, first_import, second_import, error>>
    /\ UNCHANGED <<loopVars, playVars>>

\* except: print(...); !pip install qdax[cuda12]
\* The shell escape raises nothing: pip may install the library or fail to.
ExceptInstall ==
    /\ pc = "cell2_except"
    /\ output' = Append(output, "QDax not found. Installing...")
    /\ installs' = installs + 1
    /\ available' \in BOOLEAN
    /\ pc' = "cell2_reimport"
    /\ UNCHANGED <<imported, first_import, second_import, error>>
    /\ UNCHANGED <<loopVars, playVars>>

\* import qdax, inside the except block: its error is not caught
Reimport ==
    /\ pc = "cell2_reimport"
    /\ IF available
       THEN /\ imported' = TRUE
            /\ second_import' = "ok"
            /\ error' = error
            /\ pc' = "cell2_clear"
       ELSE /\ imported' = imported
            /\ second_import' = "failed"
            /\ error' = "ImportError"
            /\ pc' = "halted"
    /\ UNCHANGED <<available, first_import, installs, output>>
    /\ UNCHANGED <<loopVars, playVars>>

\* clear_output()
ClearOutput ==
    /\ pc = "cell2_clear"
    /\ output' = <<>>
    /\ pc' = "cell15"
    /\ UNCHANGED <<available, imported, first_import, second_import, installs, error>>
    /\ UNCHANGED <<loopVars, playVars>>

(***************************************************************************)
(* Cells 15-17: map_elites.init, update_scan_fn and the main loop.         *)
(***************************************************************************)
Repertoires == 0..MaxRepertoire
Timelapses == 0..MaxTimelapse

\* the keys of the dictionary default_qd_metrics returns
MetricKeys == {"qd_score", "max_fitness", "coverage"}

\* metrics_function(repertoire): one value per key, a function of the repertoire
MetricsFunction(r) == [k \in MetricKeys |-> <<k, r>>]

\* map_elites.update(repertoire, emitter_state, random_key), r the repertoire
\* the evaluation of the emitted offspring leads to: the emitter state is
\* trained once more and the random key is split once more.
MapElitesUpdate(c, r) ==
    [repertoire |-> r,
     emitter_state |-> c[2] + 1,
     metrics |-> MetricsFunction(r),
     random_key |-> c[3] + 1]

\* update_scan_fn(carry, unused) -> ((repertoire, emitter_state, random_key), metrics)
update_scan_fn(c, r) ==
    LET u == MapElitesUpdate(c, r)
    IN  <<(<<u.repertoire, u.emitter_state, u.random_key>>), u.metrics>>

\* the ys of jax.lax.scan: the per-step outputs stacked along a leading axis, per key
Stack(outs) ==
    [k \in MetricKeys |-> [j \in 1..Len(outs) |-> outs[j][k]]]

\* num_loops = int(num_iterations / log_period): a true division, truncated.
\* Both operands are positive and far below 2^53, so the float quotient
\* truncates to the integer quotient.
NumLoops(n, p) == n \div p

LoopContinuesInclusive(idx, n) == idx <= n

\* for i in range(num_loops)
LoopContinues(idx, n) == idx < n

\* the carry handed to jax.lax.scan: (repertoire, emitter_state, random_key)
ScanInit == <<repertoire, emitter_state, random_key>>

FirstValue(value) == value[1]

\* value[-1]
LastValue(value) == value[Len(value)]

LoggedMetricsNoIteration(timelapse, idx, m) ==
    [k \in {"time", "loop"} \cup DOMAIN m |->
        IF k \in DOMAIN m THEN LastValue(m[k])
        ELSE IF k = "time" THEN timelapse
        ELSE 1 + idx]

\* logged_metrics after the for loop over metrics.items(): the three keys set
\* at line 408, then one assignment per metric key
LoggedMetrics(timelapse, idx, m) ==
    [k \in {"time", "loop", "iteration"} \cup DOMAIN m |->
        IF k \in DOMAIN m THEN LastValue(m[k])
        ELSE IF k = "time" THEN timelapse
        ELSE IF k = "loop" THEN 1 + idx
        ELSE 1 + idx * log_period]

AccumulateOverwrite(all, m) ==
    [k \in DOMAIN all \cup DOMAIN m |-> IF k \in DOMAIN m THEN m[k] ELSE all[k]]

\* all_metrics after the for loop over metrics.items(): concatenate to a
\* key already there, create the key otherwise
Accumulate(all, m) ==
    [k \in DOMAIN all \cup DOMAIN m |->
        IF k \in DOMAIN m
        THEN IF k \in DOMAIN all THEN all[k] \o m[k] ELSE m[k]
        ELSE all[k]]

\* the header given to CSVLogger
Header == {"loop", "iteration", "qd_score", "max_fitness", "coverage", "time"}

\* repertoire, emitter_state, random_key = map_elites.init(...)
InitMapElites ==
    /\ pc = "cell15"
    /\ repertoire' \in Repertoires
    /\ emitter_state' = 0
    /\ random_key' = 3
    /\ pc' = "cell17"
    /\ UNCHANGED <<available, imported, first_import, second_import, installs,
                   output, error>>
    /\ UNCHANGED <<num_iterations, log_period, num_loops, i, carry, ys, metrics,
                   all_metrics, csv_rows, updates>>
    /\ UNCHANGED playVars

\* lines 381-388: num_loops, csv_logger, all_metrics
StartMainCell ==
    /\ pc = "cell17"
    /\ num_loops' = NumLoops(num_iterations, log_period)
    /\ csv_rows' = <<>>
    /\ all_metrics' = <<>>
    /\ i' = 0
    /\ pc' = "for"
    /\ UNCHANGED <<available, imported, first_import, second_import, installs,
                   output, error>>
    /\ UNCHANGED <<num_iterations, log_period, repertoire, emitter_state,
                   random_key, carry, ys, metrics, updates>>
    /\ UNCHANGED playVars

\* the head of the for loop, and the entry into jax.lax.scan
ForHead ==
    /\ pc = "for"
    /\ IF LoopContinues(i, num_loops)
       THEN /\ carry' = ScanInit
            /\ ys' = <<>>
            /\ pc' = "scan"
       ELSE /\ UNCHANGED <<carry, ys>>
            /\ pc' = "done"
    /\ UNCHANGED <<available, imported, first_import, second_import, installs,
                   output, error>>
    /\ UNCHANGED <<num_iterations, log_period, num_loops, i, repertoire,
                   emitter_state, random_key, metrics, all_metrics, csv_rows,
                   updates>>
    /\ UNCHANGED playVars

\* one step of the scan: update_scan_fn on the carry
ScanStep ==
    /\ pc = "scan"
    /\ Len(ys) < log_period
    /\ \E r \in Repertoires :
        LET res == update_scan_fn(carry, r)
        IN  /\ carry' = res[1]
            /\ ys' = Append(ys, res[2])
            /\ updates' = Append(updates,
                   [input |-> carry, output |-> res[1], metrics |-> res[2]])
    /\ UNCHANGED <<bootVars, playVars>>
    /\ UNCHANGED <<num_iterations, log_period, num_loops, i, repertoire,
                   emitter_state, random_key, metrics, all_metrics, csv_rows>>

\* the scan returns: (repertoire, emitter_state, random_key), metrics = ...
ScanReturn ==
    /\ pc = "scan"
    /\ Len(ys) = log_period
    /\ repertoire' = carry[1]
    /\ emitter_state' = carry[2]
    /\ random_key' = carry[3]
    /\ metrics' = Stack(ys)
    /\ pc' = "log"
    /\ UNCHANGED <<available, imported, first_import, second_import, installs,
                   output, error>>
    /\ UNCHANGED <<num_iterations, log_period, num_loops, i, carry, ys,
                   all_metrics, csv_rows, updates>>
    /\ UNCHANGED playVars

\* lines 405-419: timelapse, logged_metrics, all_metrics, csv_logger.log
LogMetrics ==
    /\ pc = "log"
    /\ \E timelapse \in Timelapses :
        csv_rows' = Append(csv_rows, LoggedMetrics(timelapse, i, metrics))
    /\ all_metrics' = Accumulate(all_metrics, metrics)
    /\ i' = i + 1
    /\ pc' = "for"
    /\ UNCHANGED <<available, imported, first_import, second_import, installs,
                   output, error>>
    /\ UNCHANGED <<num_iterations, log_period, num_loops, repertoire,
                   emitter_state, random_key, carry, ys, metrics, updates>>
    /\ UNCHANGED playVars

(***************************************************************************)
(* Cells 6-7: the wrapped environment and play_step_fn.                    *)
(***************************************************************************)
\* a float, as far as the placeholders go: a number or not-a-number
Float(v) == [nan |-> FALSE, val |-> v]
NaN == [nan |-> TRUE, val |-> 0]
Bits == {0, 1}
ParamsSet == {"theta1", "theta2"}
RawRewards == (0 - MaxRawReward)..MaxRawReward
Offsets == 0..MaxOffset

Vectors(n) == [1..n -> Bits]

\* a State of the environment, as the wrappers return it
MkState(o, rew, d, sd, tr) ==
    [obs |-> o, reward |-> rew, done |-> d,
     info |-> [state_descriptor |-> sd, truncation |-> tr]]

\* OffsetRewardWrapper.step's reward: state.reward + offset
OffsetReward(rew) == rew + offset

\* ClipRewardWrapper.step's reward with clip_min = 0 and no clip_max
ClipReward(rew) == Max(0, rew)

ClipThenOffset(rew) == OffsetReward(ClipReward(rew))

\* env = ClipRewardWrapper(OffsetRewardWrapper(env, offset), clip_min=0.)
WrappedReward(rew) == ClipReward(OffsetReward(rew))

\* policy_network.apply(policy_params, obs): action_size outputs of the
\* network, each a function of the parameters and the observation
PolicyApply(params, o) == [j \in 1..action_size |-> <<"tanh", params, o, j>>]

\* float multiplication, as far as NaN goes
FMul(a, b) == IF a.nan \/ b.nan THEN NaN ELSE Float(a.val * b.val)

\* jnp.zeros(n)
Zeros(n) == [j \in 1..n |-> Float(0)]

\* jnp.zeros(n) * jnp.nan
NanPlaceholder(n) == [j \in 1..n |-> FMul(Zeros(n)[j], NaN)]

MkTransitionSwapped(s, ns, actions) ==
    [obs |-> ns.obs,
     next_obs |-> s.obs,
     rewards |-> ns.reward,
     dones |-> ns.done,
     truncations |-> ns.info.truncation,
     actions |-> actions,
     state_desc |-> s.info.state_descriptor,
     next_state_desc |-> ns.info.state_descriptor,
     desc |-> NanPlaceholder(behavior_descriptor_length),
     desc_prime |-> NanPlaceholder(behavior_descriptor_length)]

\* the DCRLTransition play_step_fn builds from env_state s, next_state ns
MkTransition(s, ns, actions) ==
    [obs |-> s.obs,
     next_obs |-> ns.obs,
     rewards |-> ns.reward,
     dones |-> ns.done,
     truncations |-> ns.info.truncation,
     actions |-> actions,
     state_desc |-> s.info.state_descriptor,
     next_state_desc |-> ns.info.state_descriptor,
     desc |-> NanPlaceholder(behavior_descriptor_length),
     desc_prime |-> NanPlaceholder(behavior_descriptor_length)]

\* the states play_step_fn can be handed
EnvStates ==
    {MkState(o, rew, d, sd, tr) :
        o \in Vectors(observation_size), rew \in Bits, d \in Bits,
        sd \in Vectors(state_descriptor_length), tr \in Bits}

NoTransition == MkTransition(MkState(<<>>, 0, 0, <<>>, 0),
                             MkState(<<>>, 0, 0, <<>>, 0), <<>>)

\* play_step_fn(env_state, policy_params, random_key); env.step is the
\* unwrapped environment's step, any state with any reward, under the wrappers
PlayStep ==
    /\ play_pc = "ready"
    /\ \E o \in Vectors(observation_size), raw \in RawRewards, d \in Bits,
          sd \in Vectors(state_descriptor_length), tr \in Bits :
        LET actions == PolicyApply(policy_params, env_state.obs)
            ns == MkState(o, WrappedReward(raw), d, sd, tr)
        IN  /\ raw_reward' = raw
            /\ next_state' = ns
            /\ transition' = MkTransition(env_state, ns, actions)
    /\ play_pc' = "stepped"
    /\ UNCHANGED <<env_state, policy_params, offset>>
    /\ UNCHANGED <<bootVars, loopVars>>

(***************************************************************************)
(* The specifications.                                                     *)
(***************************************************************************)
InitBoot ==
    /\ first_import = "none"
    /\ second_import = "none"
    /\ imported = FALSE
    /\ installs = 0
    /\ output = <<>>
    /\ error = "none"

InitLoop ==
    /\ num_loops = 0
    /\ i = 0
    /\ repertoire = 0
    /\ emitter_state = 0
    /\ random_key = 0
    /\ carry = <<0, 0, 0>>
    /\ ys = <<>>
    /\ metrics = Stack(<<>>)
    /\ all_metrics = <<>>
    /\ csv_rows = <<>>
    /\ updates = <<>>

InitPlayIdle ==
    /\ play_pc = "idle"
    /\ env_state = MkState(<<>>, 0, 0, <<>>, 0)
    /\ policy_params = "theta1"
    /\ offset = 0
    /\ raw_reward = 0
    /\ next_state = MkState(<<>>, 0, 0, <<>>, 0)
    /\ transition = NoTransition

Init ==
    /\ pc = "cell2_try"
    /\ available \in BOOLEAN
    /\ num_iterations \in 1..MaxIterations
    /\ log_period \in 1..MaxLogPeriod
    /\ InitBoot
    /\ InitLoop
    /\ InitPlayIdle

Next ==
    \/ TryImport
    \/ ExceptInstall
    \/ Reimport
    \/ ClearOutput
    \/ InitMapElites
    \/ StartMainCell
    \/ ForHead
    \/ ScanStep
    \/ ScanReturn
    \/ LogMetrics

Spec == Init /\ [][Next]_vars

InitPlay ==
    /\ pc = "play"
    /\ available = TRUE
    /\ num_iterations = 1
    /\ log_period = 1
    /\ InitBoot
    /\ InitLoop
    /\ play_pc = "ready"
    /\ env_state \in EnvStates
    /\ policy_params \in ParamsSet
    /\ offset \in Offsets
    /\ raw_reward = 0
    /\ next_state = MkState(<<>>, 0, 0, <<>>, 0)
    /\ transition = NoTransition

NextPlay == PlayStep

SpecPlay == InitPlay /\ [][NextPlay]_vars

(***************************************************************************)
(* Properties.                                                             *)
(***************************************************************************)
\* whether cell 2 has ended, normally or by an exception
CellTwoEnded == pc \notin {"cell2_try", "cell2_except", "cell2_reimport", "cell2_clear"}

\* C1: one CSV row per logging interval. A row is logged only once the
\* log_period updates of its interval are done, the next interval's updates
\* start only once the row is logged, the rows' loop fields are 1, 2, ... in
\* order, and the finished loop has logged int(num_iterations / log_period) rows.
C1_OneRowPerInterval ==
    LET rows == Len(csv_rows)
        done == Len(updates)
    IN  /\ rows * log_period <= done
        /\ done <= (rows + 1) * log_period
        /\ pc = "log" => done = (rows + 1) * log_period
        /\ pc \in {"for", "done"} => done = rows * log_period
        /\ \A r \in 1..rows : csv_rows[r]["loop"] = r
        /\ pc = "done" => rows = num_iterations \div log_period

\* C1's case: a finished loop of several intervals of several updates each
C1_Witness == pc = "done" /\ Len(csv_rows) >= 2 /\ log_period >= 2

\* C2: every row handed to csv_logger.log has exactly the header's keys: the
\* three keys set locally and one key per metric the scan returned.
C2_RowKeysAreHeader ==
    \A r \in 1..Len(csv_rows) :
        /\ DOMAIN csv_rows[r] = Header
        /\ DOMAIN csv_rows[r] = {"time", "loop", "iteration"} \cup DOMAIN metrics

\* C2's case: rows were logged, in more than one loop iteration
C2_Witness == Len(csv_rows) >= 2 /\ pc = "for"

\* C3: the transition play_step_fn builds takes obs and state_desc from the
\* state before env.step, next_obs, rewards, dones, truncations and
\* next_state_desc from the state after it, actions from the policy on the
\* pre-step observation, every field has the environment's declared size, and
\* desc and desc_prime are all-NaN of length behavior_descriptor_length.
C3_TransitionFields ==
    play_pc = "stepped" =>
        /\ transition.obs = env_state.obs
        /\ Len(transition.obs) = observation_size
        /\ transition.state_desc = env_state.info.state_descriptor
        /\ Len(transition.state_desc) = state_descriptor_length
        /\ transition.next_obs = next_state.obs
        /\ Len(transition.next_obs) = observation_size
        /\ transition.rewards = next_state.reward
        /\ transition.dones = next_state.done
        /\ transition.truncations = next_state.info.truncation
        /\ transition.next_state_desc = next_state.info.state_descriptor
        /\ Len(transition.next_state_desc) = state_descriptor_length
        /\ transition.actions = PolicyApply(policy_params, env_state.obs)
        /\ Len(transition.actions) = action_size
        /\ Len(transition.desc) = behavior_descriptor_length
        /\ \A j \in 1..Len(transition.desc) : transition.desc[j].nan
        /\ Len(transition.desc_prime) = behavior_descriptor_length
        /\ \A j \in 1..Len(transition.desc_prime) : transition.desc_prime[j].nan

\* C3's case: a step whose two sides differ in every field they share
C3_Witness ==
    /\ play_pc = "stepped"
    /\ env_state.obs # next_state.obs
    /\ env_state.info.state_descriptor # next_state.info.state_descriptor
    /\ env_state.reward # next_state.reward
    /\ env_state.done # next_state.done
    /\ env_state.info.truncation # next_state.info.truncation

\* C4: the install runs exactly when the first import failed, the import is
\* then attempted again after it, a successful first import installs nothing,
\* and the cell ends with the library imported or with the second import's error.
C4_ImportFallback ==
    /\ installs <= 1
    /\ installs = 1 <=> (first_import = "failed" /\ pc # "cell2_except")
    /\ second_import # "none" => installs = 1
    /\ first_import = "ok" => installs = 0 /\ second_import = "none"
    /\ CellTwoEnded =>
        \/ imported /\ error = "none"
        \/ ~imported /\ second_import = "failed" /\ error = "ImportError"
    /\ CellTwoEnded /\ first_import = "failed" => second_import # "none"

\* C4's case: the first import failed, the install ran and the second import succeeded
C4_Witness ==
    /\ CellTwoEnded
    /\ first_import = "failed"
    /\ installs = 1
    /\ second_import = "ok"
    /\ imported

\* every update but the first receives the carry the update before it produced
UpdatesThreadCarry ==
    \A j \in 2..Len(updates) : updates[j].input = updates[j - 1].output

UpdateCountIsLoopsTimesPeriod ==
    pc = "done" => Len(updates) = log_period * (num_iterations \div log_period)

\* C6: the reward stored in the transition is max(0, raw_reward + offset),
\* hence never negative, whatever the unwrapped environment's reward.
C6_RewardNonNegative ==
    play_pc = "stepped" =>
        /\ transition.rewards >= 0
        /\ transition.rewards = Max(0, raw_reward + offset)

\* C6's case: a raw reward below minus a positive offset
C6_Witness ==
    /\ play_pc = "stepped"
    /\ offset > 0
    /\ raw_reward + offset < 0
    /\ transition.rewards = 0

\* C7: the r-th row carries, for every metric key, the metric of update
\* number r * log_period, the last update of its interval.
C7_RowCarriesLastUpdate ==
    \A r \in 1..Len(csv_rows) : \A k \in MetricKeys :
        csv_rows[r][k] = updates[r * log_period].metrics[k]

\* C7's case: a logged row whose interval's first update had another metric
C7_Witness ==
    /\ log_period >= 2
    /\ \E r \in 1..Len(csv_rows) :
        csv_rows[r]["qd_score"] # updates[(r - 1) * log_period + 1].metrics["qd_score"]

\* C8: after i loop iterations all_metrics holds, for every metric key, the
\* metrics of the first i * log_period updates in order; it has no key before
\* the first iteration.
C8_AllMetricsAccumulate ==
    /\ i = 0 => DOMAIN all_metrics = {}
    /\ i >= 1 =>
        /\ DOMAIN all_metrics = MetricKeys
        /\ \A k \in MetricKeys :
            /\ Len(all_metrics[k]) = i * log_period
            /\ \A j \in 1..(i * log_period) :
                all_metrics[k][j] = updates[j].metrics[k]

\* C8's case: a later loop iteration has appended to the keys the first created
C8_Witness == pc = "for" /\ i >= 2 /\ log_period >= 2

====
